---- MODULE Spec2Model ----
(***************************************************************************)
(* The data-access layer of app/users/crud.py over a revisioned document   *)
(* store (CouchDB through couchdb-python).  Every request handler is a     *)
(* sequence of store round trips; each round trip is one atomic step and   *)
(* the handlers of the request processes interleave between round trips.   *)
(***************************************************************************)
EXTENDS Naturals, Sequences, FiniteSets, TLC

VARIABLES db, pc, req, loc, loaded, calls, prev, last

vars == <<db, pc, req, loc, loaded, calls, prev, last>>

(***************************************************************************)
(* Bounds of the model.                                                    *)
(***************************************************************************)
\* The number of calls made in one run, by all processes together.
MaxCalls == 2

\* Request handlers running concurrently.
Procs == {"p1", "p2"}

\* The flat id space: every kind of document lives under the same ids.  "d1"
\* holds a document: a user, a feed or a collection.
DocIds == {"d1"}

\* The ids of the users a request can come from.
Requesters == {"u1", "u2"}

\* Ids a subscription request can name, article ids, item names.
SubIds == {"s1", "s2"}
ArticleIds == {"a1", "a2"}
Names == {"n1", "n2"}

\* JSON null / Python None, a key the document does not have, a field the
\* partial update leaves unset, and str(None).
Null == "null"
NoField == "nofield"
Unset == "unset"
NoneStr == "None"

\* The query fields of a feed, the values they are created with and the
\* values an update supplies.
FeedFields == {"limit", "sort_by", "search_term"}
UpdateVals == {"v2"}

Range(s) == {s[i] : i \in DOMAIN s}

\* The orders in which a set can be serialised to a JSON list.
ListsOf(S) == {l \in [1..Cardinality(S) -> S] : Range(l) = S}

NoParams == [f \in FeedFields |-> NoField]

\* The deleteable flag of a UserItem as the JSON document carries it.
True == "true"
False == "false"

\* ph.hash(raw): an abstract salted hash, verifiable against raw only.
Hash(raw) ==
    CASE raw = "" -> "argon2()"
      [] raw = "pw1" -> "argon2(pw1)"
      [] raw = "pw2" -> "argon2(pw2)"
      [] raw = "e1" -> "argon2(e1)"

\* The credentials of a User document: username, active, the two hashes.
Auth(u, a, hp, he) ==
    [username |-> u, active |-> a, hashed_password |-> hp, hashed_email |-> he]

NoAuth == Auth(NoField, NoField, NoField, NoField)

Doc(t, r, o, n, d, f, c, i, p, u) ==
    [type |-> t, rev |-> r, owner |-> o, name |-> n, deleteable |-> d,
     feed_ids |-> f, collection_ids |-> c, ids |-> i, params |-> p, auth |-> u]

\* No document under the id (a failed lookup, a deleted document).
AbsentDoc == Doc("absent", 0, NoField, NoField, NoField, <<>>, <<>>, <<>>, NoParams, NoAuth)

\* create_user: a user as stored, with the lists it has been given since.
NewUser(username, password_hash, email_hash) ==
    Doc("user", 0, NoField, NoField, NoField, <<>>, <<>>, <<>>, NoParams,
        Auth(username, True, password_hash, email_hash))

UserDoc(rev, feed_ids, collection_ids) ==
    [NewUser("alice", Hash("pw1"), Null)
        EXCEPT !.rev = rev, !.feed_ids = feed_ids, !.collection_ids = collection_ids]

\* A feed or collection as the mapping stores it: deleteable at its default.
FeedDoc(rev, owner, name, params) ==
    Doc("feed", rev, owner, name, True, <<>>, <<>>, <<>>, params, NoAuth)

CollectionDoc(rev, owner, name, ids) ==
    Doc("collection", rev, owner, name, True, <<>>, <<>>, ids, NoParams, NoAuth)

(***************************************************************************)
(* Requests, outcomes and the record of completed calls.                   *)
(***************************************************************************)
Req(o, u, i, s, a, k, c, n) ==
    [op |-> o, user |-> u, id |-> i, ids |-> s, action |-> a,
     kind |-> k, contents |-> c, name |-> n]

NoContents == [f \in FeedFields |-> Unset]

NoReq == Req("none", "-", "-", {}, "-", "-", NoContents, "-")

\* What a call hands back to its caller: a return value or a raised exception.
Success == "success"
R404 == "404"
R403 == "403"
NoUser == "no user"
ResourceConflict == "ResourceConflict"
ResourceNotFound == "ResourceNotFound"
KeyError == "KeyError"
Pass == "pass"

Raised == {ResourceConflict, ResourceNotFound, KeyError}

\* A completed call: its request, its outcome, the revision it loaded, and the
\* target document in the store right before and right after its last step.
Event(r, o, v, c, a) ==
    [req |-> r, outcome |-> o, rev0 |-> v, cur |-> c, after |-> a]

NoEvent == Event(NoReq, "-", 0, AbsentDoc, AbsentDoc)

(***************************************************************************)
(* The document store.                                                     *)
(***************************************************************************)
\* db_conn[id] / Document.load: the document under id, if any.
Get(d, id) == IF id \in DOMAIN d THEN d[id] ELSE AbsentDoc

\* The view User.all queried by key: only documents tagged "user" are emitted.
UserAll(d, id) == IF Get(d, id).type = "user" THEN Get(d, id) ELSE AbsentDoc

\* A store that takes any write of an existing document, whatever its revision.
StoreAcceptsAnyRevision(cur, doc) == cur.type # "absent"

\* Document.store: the store accepts a write only at the current revision.
StoreAccepts(cur, doc) == cur.type # "absent" /\ cur.rev = doc.rev

\* The document as stored by an accepted write.
Stored(cur, doc) == [doc EXCEPT !.rev = cur.rev + 1]

(***************************************************************************)
(* The handlers' pure parts.                                               *)
(***************************************************************************)
\* schemas.User.from_orm: the stored JSON list read as a set.
FromOrm(list) == Range(list)

\* Subscribe toggling membership instead of adding.
ApplySubscriptionToggle(source, ids, action) ==
    IF action = "subscribe" THEN (source \ ids) \cup (ids \ source) ELSE source \ ids

\* Unsubscribe computing the difference and dropping it.
ApplySubscriptionKeep(source, ids, action) ==
    IF action = "subscribe" THEN source \cup ids ELSE source

\* crud.py 121-126: subscribe is union, unsubscribe is difference.
ApplySubscription(source, ids, action) ==
    IF action = "subscribe" THEN source \cup ids ELSE source \ ids

\* The encoded list assigned to both lists of the user.
WithSubscriptionBoth(user, kind, list) ==
    [user EXCEPT !.feed_ids = list, !.collection_ids = list]

\* crud.py 114-131: the user document with the chosen list replaced.
WithSubscription(user, kind, list) ==
    IF kind = "feed" THEN [user EXCEPT !.feed_ids = list]
                     ELSE [user EXCEPT !.collection_ids = list]

SourceOf(user, kind) ==
    IF kind = "feed" THEN FromOrm(user.feed_ids) ELSE FromOrm(user.collection_ids)

\* contents.dict() without exclude_unset: unset fields arrive as None.
ApplyContentsAll(params, contents) ==
    [f \in FeedFields |-> IF contents[f] = Unset THEN Null ELSE contents[f]]

\* contents.dict(exclude_unset=True) and the setattr loop: set fields only.
ApplyContents(params, contents) ==
    [f \in FeedFields |-> IF contents[f] = Unset THEN params[f] ELSE contents[f]]

\* Field.__get__ of the mapping: a key the document lacks reads as None.
OwnerAttr(item) == IF item.owner = NoField THEN Null ELSE item.owner

\* The guard without the comparison of the owner.
ItemCheckNoOwner(item, kinds, user) ==
    IF item.type = "absent" \/ item.type \notin kinds THEN R404 ELSE Pass

\* The guard of modify_feed / modify_collection / change_item_name.
ItemCheck(item, kinds, user) ==
    IF item.type = "absent" \/ item.type \notin kinds THEN R404
    ELSE IF OwnerAttr(item) # user THEN R403
    ELSE Pass

\* The supplied ids appended to the ids the collection already has.
MergeIds(item, list) == [item EXCEPT !.ids = item.ids \o list]

\* modify_collection, item.ids = list(contents): the list replaces the old one.
ReplaceIds(item, list) == [item EXCEPT !.ids = list]

\* The guard of remove_item without the comparison of the owner.
RemoveItemCheckKindOnly(item, user) ==
    IF item.type \notin {"feed", "collection"} THEN R404 ELSE Pass

\* The guard of remove_item with the owner compared before the kind.
RemoveItemCheckOwnerFirst(item, user) ==
    IF item.owner = NoField THEN KeyError
    ELSE IF item.owner # user THEN R403
    ELSE IF item.type \notin {"feed", "collection"} THEN R404
    ELSE Pass

\* The guard of remove_item, on the raw JSON document.
RemoveItemCheck(item, user) ==
    IF item.type \notin {"feed", "collection"} THEN R404
    ELSE IF item.owner = NoField THEN KeyError
    ELSE IF item.owner # user THEN R403
    ELSE Pass

\* A lookup that finds nothing answered with 404.
RemoveItemMissing404 == R404

\* remove_item, except ResourceNotFound: a bare return.
RemoveItemMissing == Success

(***************************************************************************)
(* Initial state: the documents as create_user, create_feed and            *)
(* create_collection store them.                                           *)
(***************************************************************************)
\* create_feed: the fields its caller set, null for those it left unset.
InitParams == [f \in FeedFields |-> IF f = "search_term" THEN Null ELSE "v1"]

InitDocs ==
    {UserDoc(1, fl, <<>>) : fl \in {<<>>, <<"s1">>}}
    \cup {FeedDoc(1, o, "n1", InitParams) : o \in {"u1", Null}}
    \cup {CollectionDoc(1, o, "n1", <<"a1">>) : o \in {"u1", NoneStr}}

Init ==
    /\ \E d \in InitDocs : db = [i \in DocIds |-> d]
    /\ pc = [p \in Procs |-> "idle"]
    /\ req = [p \in Procs |-> NoReq]
    /\ loc = [p \in Procs |-> AbsentDoc]
    /\ loaded = [p \in Procs |-> 0]
    /\ calls = 0
    /\ prev = NoEvent
    /\ last = NoEvent

\* Process p takes up a new call.
Begin(p) ==
    /\ pc[p] = "idle"
    /\ calls < MaxCalls
    /\ calls' = calls + 1

\* The call of process p returns (or raises) outcome.
Return(p, r, outcome, rev0, cur, after) ==
    /\ pc' = [pc EXCEPT ![p] = "idle"]
    /\ req' = [req EXCEPT ![p] = NoReq]
    /\ loc' = [loc EXCEPT ![p] = AbsentDoc]
    /\ loaded' = [loaded EXCEPT ![p] = 0]
    /\ prev' = last
    /\ last' = Event(r, outcome, rev0, cur, after)

\* The call of process p goes on to its next round trip with item in hand.
Continue(p, r, label, item, tag) ==
    /\ pc' = [pc EXCEPT ![p] = label]
    /\ req' = [req EXCEPT ![p] = r]
    /\ loc' = [loc EXCEPT ![p] = item]
    /\ loaded' = [loaded EXCEPT ![p] = tag]
    /\ UNCHANGED <<db, prev, last>>

\* item.store(db_conn) as the last step of a call: the write or a conflict.
StoreStep(p, label) ==
    /\ pc[p] = label
    /\ calls' = calls
    /\ LET id == req[p].id
           cur == Get(db, id)
       IN IF StoreAccepts(cur, loc[p])
          THEN /\ db' = [db EXCEPT ![id] = Stored(cur, loc[p])]
               /\ Return(p, req[p], Success, loaded[p], cur, Stored(cur, loc[p]))
          ELSE /\ db' = db
               /\ Return(p, req[p], ResourceConflict, loaded[p], cur, cur)

(***************************************************************************)
(* modify_user_subscription                                                *)
(***************************************************************************)
ModifyUserSubscriptionLoad(p) ==
    /\ Begin(p)
    /\ \E uid \in DocIds, ids \in SUBSET SubIds,
          action \in {"subscribe", "unsubscribe"}, kind \in {"feed", "collection"} :
          LET r == Req("modify_user_subscription", uid, uid, ids, action, kind,
                       NoContents, "-")
              user == UserAll(db, uid)
          IN IF user.type = "absent"
             THEN /\ Return(p, r, NoUser, 0, Get(db, uid), Get(db, uid))
                  /\ db' = db
             ELSE \E list \in ListsOf(ApplySubscription(SourceOf(user, kind), ids, action)) :
                        Continue(p, r, "sub_store", WithSubscription(user, kind, list), user.rev)

ModifyUserSubscriptionStore(p) == StoreStep(p, "sub_store")

(***************************************************************************)
(* modify_feed, modify_collection, change_item_name                        *)
(***************************************************************************)
\* The guard shared by the three, on the loaded item: 404, 403 or on to the
\* store with the item as the call changed it.
ItemLoad(p, r, kinds, label, item, mutated) ==
    /\ Begin(p)
    /\ LET check == ItemCheck(item, kinds, r.user)
       IN IF check # Pass
          THEN /\ Return(p, r, check, item.rev, item, item)
               /\ db' = db
          ELSE Continue(p, r, label, mutated, item.rev)

ModifyFeedLoad(p) ==
    \E id \in DocIds, user \in Requesters, contents \in [FeedFields -> UpdateVals \cup {Unset}] :
       LET item == Get(db, id)
       IN ItemLoad(p, Req("modify_feed", user, id, {}, "-", "-", contents, "-"),
                   {"feed"}, "feed_store", item,
                   [item EXCEPT !.params = ApplyContents(item.params, contents)])

ModifyFeedStore(p) == StoreStep(p, "feed_store")

ModifyCollectionLoad(p) ==
    \E id \in DocIds, user \in Requesters, contents \in SUBSET ArticleIds :
       \E list \in ListsOf(contents) :
          LET item == Get(db, id)
          IN ItemLoad(p, Req("modify_collection", user, id, contents, "-", "-", NoContents, "-"),
                      {"collection"}, "collection_store", item,
                      ReplaceIds(item, list))

ModifyCollectionStore(p) == StoreStep(p, "collection_store")

ChangeItemNameLoad(p) ==
    \E id \in DocIds, user \in Requesters, new_name \in Names :
       LET item == Get(db, id)
       IN ItemLoad(p, Req("change_item_name", user, id, {}, "-", "-", NoContents, new_name),
                   {"feed", "collection"}, "name_store", item,
                   [item EXCEPT !.name = new_name])

ChangeItemNameStore(p) == StoreStep(p, "name_store")

(***************************************************************************)
(* remove_item: db_conn[id], the guard, then del db_conn[id], which is a   *)
(* HEAD for the current revision followed by a DELETE at that revision.    *)
(***************************************************************************)
RemoveItemLoad(p) ==
    /\ Begin(p)
    /\ \E id \in DocIds, user \in Requesters :
          LET r == Req("remove_item", user, id, {}, "-", "-", NoContents, "-")
              item == Get(db, id)
              check == RemoveItemCheck(item, user)
          IN IF item.type = "absent"
             THEN /\ Return(p, r, RemoveItemMissing, 0, item, item)
                  /\ db' = db
             ELSE IF check # Pass
             THEN /\ Return(p, r, check, item.rev, item, item)
                  /\ db' = db
             ELSE Continue(p, r, "remove_head", item, item.rev)

RemoveItemHead(p) ==
    /\ pc[p] = "remove_head"
    /\ calls' = calls
    /\ LET cur == Get(db, req[p].id)
       IN IF cur.type = "absent"
          THEN /\ Return(p, req[p], ResourceNotFound, loaded[p], cur, cur)
               /\ db' = db
          ELSE /\ pc' = [pc EXCEPT ![p] = "remove_delete"]
               /\ loc' = [loc EXCEPT ![p] = [loc[p] EXCEPT !.rev = cur.rev]]
               /\ UNCHANGED <<db, req, loaded, prev, last>>

RemoveItemDelete(p) ==
    /\ pc[p] = "remove_delete"
    /\ calls' = calls
    /\ LET id == req[p].id
           cur == Get(db, id)
       IN IF cur.type = "absent"
          THEN /\ Return(p, req[p], ResourceNotFound, loaded[p], cur, cur)
               /\ db' = db
          ELSE IF cur.rev # loc[p].rev
          THEN /\ Return(p, req[p], ResourceConflict, loaded[p], cur, cur)
               /\ db' = db
          ELSE /\ db' = [db EXCEPT ![id] = AbsentDoc]
               /\ Return(p, req[p], Success, loaded[p], cur, AbsentDoc)

Next ==
    \E p \in Procs :
       \/ ModifyUserSubscriptionLoad(p)
       \/ ModifyUserSubscriptionStore(p)
       \/ ModifyFeedLoad(p)
       \/ ModifyFeedStore(p)
       \/ ModifyCollectionLoad(p)
       \/ ModifyCollectionStore(p)
       \/ ChangeItemNameLoad(p)
       \/ ChangeItemNameStore(p)
       \/ RemoveItemLoad(p)
       \/ RemoveItemHead(p)
       \/ RemoveItemDelete(p)

Spec == Init /\ [][Next]_vars

(***************************************************************************)
(* Properties.  prev and last are the two most recently completed calls.   *)
(***************************************************************************)
StoreOps == {"modify_user_subscription", "modify_feed", "modify_collection",
             "change_item_name"}

\* The call got as far as its store.
ReachedStore(e) == e.req.op \in StoreOps /\ e.outcome \in {Success, ResourceConflict}

\* Calls e and f loaded the same document at the same revision and both stored.
Raced(e, f) ==
    /\ ReachedStore(e)
    /\ ReachedStore(f)
    /\ e.req.id = f.req.id
    /\ e.rev0 = f.rev0

\* No other writer touched the document between the call's load and its last step.
Alone(e) == e.cur.rev = e.rev0

\* Call f began after call e had returned and no other writer came in between.
InARow(e, f) ==
    /\ e.req.id = f.req.id
    /\ Alone(e)
    /\ f.rev0 = e.after.rev
    /\ f.cur = e.after

\* The subscription list a modify_user_subscription request is about.
SubList(doc, kind) == IF kind = "feed" THEN doc.feed_ids ELSE doc.collection_ids
OtherList(doc, kind) == IF kind = "feed" THEN doc.collection_ids ELSE doc.feed_ids

NoDuplicates(list) == Cardinality(Range(list)) = Len(list)

\* C1: of two requests that load the same document at the same revision and
\* both store it, the first store succeeds with a new revision, the second
\* receives a conflict, and the stored document is the winner's.
C1_OneStoreWins ==
    Raced(prev, last) =>
        /\ prev.outcome = Success
        /\ prev.after.rev # prev.rev0
        /\ last.outcome = ResourceConflict
        /\ last.after = prev.after
        /\ db[last.req.id] = prev.after

C1_Witness ==
    /\ Raced(prev, last)
    /\ prev.req.op = "modify_feed"
    /\ last.req.op = "modify_feed"
    /\ prev.req.contents # last.req.contents
    /\ last.outcome = ResourceConflict

\* C2: a modify_user_subscription call that reports success has applied its
\* union or difference to the list as it stood in the store at that moment,
\* leaving the other list alone; a call that did not apply its change has
\* reported the conflict (or the missing user) and has written nothing.
C2_NoSilentOverwrite ==
    last.req.op = "modify_user_subscription" =>
        LET k == last.req.kind
            before == Range(SubList(last.cur, k))
            now == Range(SubList(last.after, k))
        IN \/ /\ last.outcome = Success
              /\ now = IF last.req.action = "subscribe"
                       THEN before \cup last.req.ids
                       ELSE before \ last.req.ids
              /\ OtherList(last.after, k) = OtherList(last.cur, k)
              /\ db[last.req.id] = last.after
           \/ /\ last.outcome \in {ResourceConflict, NoUser}
              /\ last.after = last.cur
              /\ db[last.req.id] = last.cur

C2_Witness ==
    /\ Raced(prev, last)
    /\ prev.req.op = "modify_user_subscription"
    /\ last.req.op = "modify_user_subscription"
    /\ prev.req.ids # last.req.ids
    /\ prev.outcome = Success
    /\ last.outcome = ResourceConflict
    /\ Range(SubList(db[last.req.id], prev.req.kind)) # {}

\* C3 (as claimed): a mutating call that lost one race, to a writer that has
\* since returned, retries and succeeds with its mutation applied.
C3_RetriesUntilSuccess ==
    (Raced(prev, last) /\ prev.outcome = Success) =>
        /\ last.outcome = Success
        /\ last.after # last.cur

\* C4 (as claimed): every call ends in a typed outcome, never in an exception.
C4_TypedOutcomes == last.outcome \notin Raised

\* The same modify_user_subscription call made twice in a row.
C5_Premise ==
    /\ prev.req.op = "modify_user_subscription"
    /\ prev.outcome = Success
    /\ last.req = prev.req
    /\ InARow(prev, last)

\* C5: the same modify_user_subscription call made twice in a row: the second
\* call succeeds, leaves the set as the first call left it, and the stored
\* list has no duplicates.
C5_SubscriptionIdempotent ==
    C5_Premise =>
        /\ last.outcome = Success
        /\ Range(SubList(last.after, last.req.kind))
             = Range(SubList(prev.after, prev.req.kind))
        /\ NoDuplicates(SubList(last.after, last.req.kind))
        /\ NoDuplicates(SubList(prev.after, last.req.kind))

C5_Witness ==
    /\ C5_Premise
    /\ Cardinality(last.req.ids) = 2
    /\ Range(SubList(prev.cur, prev.req.kind)) # Range(SubList(prev.after, prev.req.kind))

\* Subscribe S then unsubscribe S, same user and kind, in a row.
C6_Premise ==
    /\ prev.req.op = "modify_user_subscription"
    /\ last.req.op = "modify_user_subscription"
    /\ prev.req.action = "subscribe"
    /\ last.req.action = "unsubscribe"
    /\ prev.req.ids = last.req.ids
    /\ prev.req.kind = last.req.kind
    /\ prev.outcome = Success
    /\ InARow(prev, last)

\* C6 (as claimed): subscribe S then unsubscribe S restores the original set.
C6_InverseLaw ==
    C6_Premise =>
        Range(SubList(last.after, last.req.kind)) = Range(SubList(prev.cur, prev.req.kind))

\* C6 (amended): subscribe S then unsubscribe S leaves the original set minus
\* S, which is the original set exactly when S shared no id with it.
C6_InverseUpToS ==
    C6_Premise =>
        LET orig == Range(SubList(prev.cur, prev.req.kind))
            now == Range(SubList(last.after, last.req.kind))
        IN /\ last.outcome = Success
           /\ now = orig \ last.req.ids
           /\ (orig \cap last.req.ids = {}) => now = orig

C6_Witness ==
    /\ C6_Premise
    /\ Range(SubList(prev.cur, prev.req.kind)) \cap last.req.ids # {}
    /\ last.req.ids \ Range(SubList(prev.cur, prev.req.kind)) # {}

\* The same remove_item call made twice in a row on a feed or collection.
C7_Premise ==
    /\ prev.req.op = "remove_item"
    /\ last.req = prev.req
    /\ prev.cur.type \in {"feed", "collection"}
    /\ InARow(prev, last)

\* C7: removing an owned item twice returns Success both times and the
\* document is gone; removing another user's item twice returns Forbidden both
\* times and the document stays as it was.
C7_RemoveIdempotent ==
    C7_Premise =>
        /\ prev.cur.owner = prev.req.user =>
              /\ prev.outcome = Success
              /\ last.outcome = Success
              /\ db[last.req.id] = AbsentDoc
        /\ prev.cur.owner \in Requesters \ {prev.req.user} =>
              /\ prev.outcome = R403
              /\ last.outcome = R403
              /\ db[last.req.id] = prev.cur

C7_Witness ==
    /\ C7_Premise
    /\ prev.cur.owner = prev.req.user
    /\ last.outcome = Success
    /\ last.cur = AbsentDoc

\* C8: remove_item on a document that is neither a feed nor a collection
\* returns 404 for every requester and leaves the document as it was.
C8_RemoveWrongKind ==
    (last.req.op = "remove_item" /\ last.cur.type = "user") =>
        /\ last.outcome = R404
        /\ last.after = last.cur
        /\ db[last.req.id] = last.cur

C8_Witness ==
    /\ last.req.op = "remove_item"
    /\ prev.req.op = "remove_item"
    /\ last.cur.type = "user"
    /\ prev.req.user # last.req.user
    /\ prev.outcome = R404
    /\ last.outcome = R404

\* remove_item on a feed or collection stored without an owner.
C9_Premise ==
    /\ last.req.op = "remove_item"
    /\ last.cur.type \in {"feed", "collection"}
    /\ last.cur.owner \in {Null, NoneStr}

\* C9 (as claimed): remove_item on an item without an owner returns 404 and
\* does not delete it.
C9_OrphanNotFound ==
    C9_Premise => (last.outcome = R404 /\ db[last.req.id] = last.cur)

\* C9 (amended): remove_item on an item without an owner returns 403 and
\* does not delete it.
C9_OrphanForbidden ==
    C9_Premise =>
        /\ last.outcome = R403
        /\ last.after = last.cur
        /\ db[last.req.id] = last.cur

C9_Witness == C9_Premise /\ last.cur.type = "feed" /\ last.cur.owner = Null

\* C10: a successful modify_feed sets exactly the fields its update carries
\* and leaves every other field of the feed as it was stored.
C10_PartialUpdate ==
    (last.req.op = "modify_feed" /\ last.outcome = Success) =>
        /\ \A f \in FeedFields :
              last.after.params[f] = IF last.req.contents[f] # Unset
                                     THEN last.req.contents[f]
                                     ELSE last.cur.params[f]
        /\ last.after.name = last.cur.name
        /\ last.after.owner = last.cur.owner
        /\ last.after.type = last.cur.type
        /\ db[last.req.id] = last.after

C10_Witness ==
    /\ last.req.op = "modify_feed"
    /\ last.outcome = Success
    /\ last.req.contents["limit"] # Unset
    /\ last.req.contents["sort_by"] = Unset
    /\ last.req.contents["search_term"] = Unset
    /\ last.after.params["sort_by"] = "v1"
    /\ last.after.params["limit"] # last.cur.params["limit"]

ItemOps == {"modify_feed", "modify_collection", "change_item_name", "remove_item"}

\* The kinds of document an operation applies to.
KindsOf(op) ==
    IF op = "modify_feed" THEN {"feed"}
    ELSE IF op = "modify_collection" THEN {"collection"}
    ELSE {"feed", "collection"}

\* The call changed or deleted the document only as its owner and on a
\* document of its kind.
ChangedOnlyByOwner(e) ==
    e.after # e.cur =>
        /\ e.cur.type \in KindsOf(e.req.op)
        /\ e.cur.owner = e.req.user

\* What the checks owe a request on document doc: absent answers missing.
Owed(e, doc, missing) ==
    IF doc.type = "absent" THEN missing
    ELSE IF doc.type \notin KindsOf(e.req.op) THEN R404
    ELSE IF doc.owner # e.req.user THEN R403
    ELSE Pass

\* A call whose document fails a check returns what is owed and writes nothing.
FailedCheckAnswered(e, missing) ==
    (Alone(e) /\ Owed(e, e.cur, missing) # Pass) =>
        /\ e.outcome = Owed(e, e.cur, missing)
        /\ e.after = e.cur
        /\ db[e.req.id] = e.cur

\* C11 (as claimed): a feed or collection is changed or deleted only by its
\* owner through an operation of its kind; a request on an absent document or
\* one of another kind returns 404, one by another user 403, and neither
\* writes.
C11_OwnerOnlyNotFound ==
    last.req.op \in ItemOps =>
        /\ ChangedOnlyByOwner(last)
        /\ FailedCheckAnswered(last, R404)

\* C11 (amended): as claimed, except that remove_item on an absent document
\* returns Success instead of 404.
C11_OwnerOnly ==
    last.req.op \in ItemOps =>
        /\ ChangedOnlyByOwner(last)
        /\ FailedCheckAnswered(last, IF last.req.op = "remove_item"
                                     THEN Success ELSE R404)

C11_Witness ==
    /\ prev.req.op = "modify_collection"
    /\ prev.outcome = Success
    /\ prev.after # prev.cur
    /\ last.req.op \in ItemOps
    /\ last.req.id = prev.req.id
    /\ last.req.user # prev.req.user
    /\ last.outcome = R403
    /\ last.cur = prev.after

\* C12: a successful modify_collection leaves the collection with exactly the
\* supplied ids, each once, and with its name, owner, type and deleteable flag
\* as they were stored.
C12_ReplacesIdSet ==
    (last.req.op = "modify_collection" /\ last.outcome = Success) =>
        /\ Range(last.after.ids) = last.req.ids
        /\ NoDuplicates(last.after.ids)
        /\ last.after.name = last.cur.name
        /\ last.after.owner = last.cur.owner
        /\ last.after.type = last.cur.type
        /\ last.after.deleteable = last.cur.deleteable
        /\ db[last.req.id] = last.after

C12_Witness ==
    /\ last.req.op = "modify_collection"
    /\ last.outcome = Success
    /\ Range(last.cur.ids) = {"a1"}
    /\ last.req.ids = {"a2"}
    /\ last.after.ids = <<"a2">>

\* A remove_item and a second call on the same document that both loaded it,
\* at the same revision, and both passed their checks.
C19_Premise ==
    /\ prev.req.op \in ItemOps
    /\ last.req.op \in ItemOps
    /\ "remove_item" \in {prev.req.op, last.req.op}
    /\ prev.req.id = last.req.id
    /\ prev.rev0 = last.rev0
    /\ prev.rev0 > 0
    /\ {prev.outcome, last.outcome} \cap {R403, R404} = {}

\* C19 (as claimed): concurrent remove_item calls by the owner both return
\* Success, a remove_item racing with a modify raises neither a not-found nor
\* a conflict error, and the document is absent once both have finished.
C19_ConcurrentRemove ==
    C19_Premise =>
        /\ prev.outcome \notin Raised
        /\ last.outcome \notin Raised
        /\ (prev.req.op = last.req.op) =>
              (prev.outcome = Success /\ last.outcome = Success)
        /\ db[last.req.id] = AbsentDoc

(***************************************************************************)
(* verify_user and create_user over the view auth_info.  verify_user is    *)
(* one view query; create_user is that query followed by the store of a    *)
(* new document under a fresh uuid.                                        *)
(***************************************************************************)
UserIds == {"x1", "x2", "x3", "x4"}
Usernames == {"alice", "bob"}
Passwords == {"pw1", "pw2"}
Emails == {"e1"}

AuthReq(o, u, pw, e) == [op |-> o, username |-> u, password |-> pw, email |-> e]

\* What verify_user and create_user return, and what ph.verify raises on a
\* hash that is None.
ReturnedUser == "user"
ReturnedFalse == "False"
ReturnedTrue == "True"
VerifyError == "error raised by ph.verify"

\* The view User.auth_info queried by username: the ids of the rows.
AuthInfo(d, username) ==
    {id \in DOMAIN d : d[id].type = "user" /\ d[id].auth.username = username}

\* if raw_value: None and the empty string are false.
Truthy(raw) == raw \notin {Null, ""}

\* ph.verify(hashed_value, raw_value).
PhVerify(hashed, raw) ==
    IF hashed = Null THEN VerifyError
    ELSE IF hashed = Hash(raw) THEN Pass
    ELSE ReturnedFalse

\* verify_user, lines 34-44, on the user the view returned.
VerifyUserLoop(user, password, email) ==
    IF Truthy(password) /\ PhVerify(user.auth.hashed_password, password) # Pass
    THEN PhVerify(user.auth.hashed_password, password)
    ELSE IF Truthy(email) /\ PhVerify(user.auth.hashed_email, email) # Pass
    THEN PhVerify(user.auth.hashed_email, email)
    ELSE ReturnedUser

\* The stores create_user can have left: no user, or alice with or without
\* an email.
InitUsers ==
    {[i \in UserIds |-> AbsentDoc]}
    \cup {[i \in UserIds |-> IF i = "x1"
                             THEN [NewUser("alice", Hash("pw1"), he) EXCEPT !.rev = 1]
                             ELSE AbsentDoc] : he \in {Null, Hash("e1")}}

InitUsersSpec ==
    /\ db \in InitUsers
    /\ pc = [p \in Procs |-> "idle"]
    /\ req = [p \in Procs |-> NoReq]
    /\ loc = [p \in Procs |-> AbsentDoc]
    /\ loaded = [p \in Procs |-> 0]
    /\ calls = 0
    /\ prev = NoEvent
    /\ last = NoEvent

VerifyUser(p) ==
    /\ Begin(p)
    /\ db' = db
    /\ \E username \in Usernames, password \in Passwords \cup {Null, ""},
          email \in Emails \cup {Null} :
          LET r == AuthReq("verify_user", username, password, email)
              rows == AuthInfo(db, username)
          IN IF rows = {}
             THEN Return(p, r, ReturnedFalse, 0, AbsentDoc, AbsentDoc)
             ELSE \E id \in rows :
                     Return(p, r, VerifyUserLoop(db[id], password, email),
                            db[id].rev, db[id], db[id])

\* create_user up to the store: verify_user(username), the hashes, the new
\* document.
CreateUserCheck(p) ==
    /\ Begin(p)
    /\ \E username \in Usernames, password \in Passwords, email \in Emails \cup {""} :
          LET r == AuthReq("create_user", username, password, email)
              rows == AuthInfo(db, username)
              email_hash == IF Truthy(email) THEN Hash(email) ELSE Null
          IN IF rows # {}
             THEN /\ \E id \in rows : Return(p, r, ReturnedFalse, db[id].rev, db[id], db[id])
                  /\ db' = db
             ELSE Continue(p, r, "create_store",
                           NewUser(username, Hash(password), email_hash), 0)

\* new_user.store(db_conn) under _id = str(uuid4()).
CreateUserStore(p) ==
    /\ pc[p] = "create_store"
    /\ calls' = calls
    /\ \E id \in UserIds :
          /\ Get(db, id).type = "absent"
          /\ db' = [db EXCEPT ![id] = Stored(Get(db, id), loc[p])]
          /\ Return(p, req[p], ReturnedTrue, 0, Get(db, id), Stored(Get(db, id), loc[p]))

NextUsers ==
    \E p \in Procs :
       \/ VerifyUser(p)
       \/ CreateUserCheck(p)
       \/ CreateUserStore(p)

SpecUsers == InitUsersSpec /\ [][NextUsers]_vars

\* C15 (as claimed): for an existing user, verify_user(username, password)
\* returns the user when password is the secret whose hash is stored, returns
\* False for every other password, the empty string included, and never
\* raises.
C15_VerifyMatchesSecret ==
    (/\ last.req.op = "verify_user"
     /\ last.cur.type = "user"
     /\ last.req.password # Null
     /\ last.req.email = Null) =>
        last.outcome = IF last.cur.auth.hashed_password = Hash(last.req.password)
                       THEN ReturnedUser ELSE ReturnedFalse

\* The user documents carrying username.
UsersNamed(username) == AuthInfo(db, username)

\* C16 (as claimed): at most one user document has a given username, and a
\* create_user call that finds the username taken returns False and stores
\* nothing.
C16_UsernamesUnique ==
    /\ \A username \in Usernames : Cardinality(UsersNamed(username)) <= 1
    /\ (last.req.op = "create_user" /\ last.outcome = ReturnedFalse) =>
          /\ last.after = last.cur
          /\ last.cur.auth.username = last.req.username

(***************************************************************************)
(* create_feed, create_collection and the resolvers get_feed_list,         *)
(* get_feeds and get_collections, with modify_user_subscription and        *)
(* remove_item, each call run from start to end, over a store that holds   *)
(* the user "u1" and two more ids.                                         *)
(***************************************************************************)
ItemIds == {"i1", "i2"}
StoreIds == {"u1"} \cup ItemIds

\* A completed call: its request, its outcome, what it returned and the
\* number of view queries it sent to the store.
Done(r, o, res, q) == [req |-> r, outcome |-> o, result |-> res, queries |-> q]

\* A view emitting every feed and collection under its id.
ViewAnyKind(d, kind, keys) ==
    {id \in keys : Get(d, id).type \in {"feed", "collection"}}

\* A view that drops an empty key list and so returns every row it has.
ViewAllRowsIfNoKeys(d, kind, keys) ==
    IF keys = {} THEN {id \in DOMAIN d : d[id].type = kind}
    ELSE {id \in keys : Get(d, id).type = kind}

\* Feed.all, Feed.get_minimal_info, Collection.all with options["keys"]: the
\* ids of the rows, one per key that the view emitted.
ViewByKeys(d, kind, keys) == {id \in keys : Get(d, id).type = kind}

\* The resolvers build the view, set its keys and iterate it: one query.
ResolveQueries(keys) == 1

\* create_collection, owner=str(owner): the text of the owner, of None too.
CollectionOwner(owner) == IF owner = Null THEN NoneStr ELSE owner

\* create_feed, `if owner: feed.owner = str(owner)`: unset stays null.
FeedOwner(owner) == owner

\* The stores the calls below start from: the user with both lists empty or
\* naming both ids, a feed under "i1" and anything under "i2".
InitStores ==
    {[i \in StoreIds |->
         IF i = "u1" THEN UserDoc(1, fl, cl)
         ELSE IF i = "i1" THEN FeedDoc(1, "u1", "n1", InitParams)
         ELSE d2] :
       fl \in {<<>>, <<"i1", "i2">>}, cl \in {<<>>, <<"i2", "i1">>},
       d2 \in {AbsentDoc, FeedDoc(1, "u1", "n1", InitParams),
               CollectionDoc(1, "u1", "n1", <<"a1">>)}}

InitResolve ==
    /\ db \in InitStores
    /\ pc = [p \in Procs |-> "idle"]
    /\ req = [p \in Procs |-> NoReq]
    /\ loc = [p \in Procs |-> AbsentDoc]
    /\ loaded = [p \in Procs |-> 0]
    /\ calls = 0
    /\ prev = NoEvent
    /\ last = NoEvent

\* The call of process p ends.
Finish(p, r, outcome, result, queries) ==
    /\ UNCHANGED <<pc, req, loc, loaded>>
    /\ prev' = last
    /\ last' = Done(r, outcome, result, queries)

\* The store of a new document under id: refused if the id is taken.
CreateItem(p, r, id, doc) ==
    IF Get(db, id).type = "absent"
    THEN /\ db' = [db EXCEPT ![id] = Stored(Get(db, id), doc)]
         /\ Finish(p, r, Success, <<id, Stored(Get(db, id), doc)>>, 0)
    ELSE /\ db' = db
         /\ Finish(p, r, ResourceConflict, <<id, AbsentDoc>>, 0)

\* The ids create_feed / create_collection can store under: the one supplied
\* or, with none supplied, a uuid no document has.
CreateIds(id) ==
    IF id = Null THEN {i \in ItemIds : Get(db, i).type = "absent"} ELSE {id}

CreateFeed(p) ==
    /\ Begin(p)
    /\ \E owner \in {Null, "u1"}, id \in ItemIds \cup {Null} :
          \E new \in CreateIds(id) :
             CreateItem(p, Req("create_feed", owner, id, {}, "-", "-", NoContents, "n1"),
                        new, FeedDoc(0, FeedOwner(owner), "n1", InitParams))

CreateCollection(p) ==
    /\ Begin(p)
    /\ \E owner \in {Null, "u1"}, id \in ItemIds \cup {Null}, ids \in {{}, {"a1"}} :
          \E new \in CreateIds(id), list \in ListsOf(ids) :
             CreateItem(p, Req("create_collection", owner, id, ids, "-", "-", NoContents, "n1"),
                        new, CollectionDoc(0, CollectionOwner(owner), "n1", list))

\* modify_user_subscription of user "u1", load and store with no other call
\* in between.
Subscribe(p) ==
    /\ Begin(p)
    /\ \E ids \in SUBSET ItemIds, action \in {"subscribe", "unsubscribe"},
          kind \in {"feed", "collection"} :
          LET r == Req("modify_user_subscription", "u1", "u1", ids, action, kind,
                       NoContents, "-")
              user == UserAll(db, "u1")
          IN \E list \in ListsOf(ApplySubscription(SourceOf(user, kind), ids, action)) :
                /\ db' = [db EXCEPT !["u1"] = Stored(user, WithSubscription(user, kind, list))]
                /\ Finish(p, r, Success, "-", 1)

\* remove_item, lookup, checks and delete with no other call in between.
Remove(p) ==
    /\ Begin(p)
    /\ \E id \in StoreIds, user \in Requesters :
          LET r == Req("remove_item", user, id, {}, "-", "-", NoContents, "-")
              item == Get(db, id)
              check == RemoveItemCheck(item, user)
          IN IF item.type = "absent"
             THEN db' = db /\ Finish(p, r, RemoveItemMissing, "-", 0)
             ELSE IF check # Pass
             THEN db' = db /\ Finish(p, r, check, "-", 0)
             ELSE /\ db' = [db EXCEPT ![id] = AbsentDoc]
                  /\ Finish(p, r, Success, "-", 0)

\* get_feed_list, get_feeds (kind "feed") and get_collections for user "u1"
\* as the store holds it.
Resolve(p) ==
    /\ Begin(p)
    /\ db' = db
    /\ \E op \in {"get_feed_list", "get_feeds", "get_collections"} :
          LET kind == IF op = "get_collections" THEN "collection" ELSE "feed"
              keys == SourceOf(UserAll(db, "u1"), kind)
          IN Finish(p, Req(op, "u1", "u1", keys, "-", kind, NoContents, "-"),
                    Success, ViewByKeys(db, kind, keys), ResolveQueries(keys))

NextResolve ==
    \E p \in Procs :
       \/ CreateFeed(p)
       \/ CreateCollection(p)
       \/ Subscribe(p)
       \/ Remove(p)
       \/ Resolve(p)

SpecResolve == InitResolve /\ [][NextResolve]_vars

Resolvers == {"get_feed_list", "get_feeds", "get_collections"}

\* C13 (as claimed): a resolver called for a user whose id list is empty
\* returns an empty result and sends no query to the store.
C13_EmptyNoQuery ==
    (last.req.op \in Resolvers /\ last.req.ids = {}) =>
        /\ last.result = {}
        /\ last.queries = 0

\* C13 (amended): a resolver called for a user whose id list is empty returns
\* an empty result; it does so by sending the store one query with an empty
\* key list.
C13_EmptyOneQuery ==
    (last.req.op \in Resolvers /\ last.req.ids = {}) =>
        /\ last.outcome = Success
        /\ last.result = {}
        /\ last.queries = 1

C13_Witness ==
    /\ last.req.op = "get_feeds"
    /\ last.req.ids = {}
    /\ db["u1"].feed_ids = <<>>
    /\ db["i1"].type = "feed"
    /\ last.result = {}

\* The ids user "u1" subscribes to, as stored.
Subscribed(kind) == Range(SubList(db["u1"], kind))

\* C14: a resolver returns, without error, exactly the ids of the user's list
\* that the store holds with the resolver's kind; an id just removed and an
\* id of a document of the other kind are not in the result.
C14_ResolvesExisting ==
    last.req.op \in Resolvers =>
        /\ last.outcome = Success
        /\ last.result \subseteq Subscribed(last.req.kind)
        /\ \A id \in Subscribed(last.req.kind) :
              id \in last.result <=> db[id].type = last.req.kind
        /\ (prev.req.op = "remove_item" /\ prev.outcome = Success) =>
              prev.req.id \notin last.result

C14_Witness ==
    /\ prev.req.op = "remove_item"
    /\ prev.outcome = Success
    /\ prev.req.id = "i1"
    /\ last.req.op = "get_feeds"
    /\ Subscribed("feed") = {"i1", "i2"}
    /\ db["i2"].type = "collection"
    /\ last.result = {}

\* C17 (as claimed): create_feed and create_collection called without an id
\* store the document under an id no document had and return it; the stored
\* owner is the owner given, and absent (null) when none was given.
C17_CreateStoresOwner ==
    (last.req.op \in {"create_feed", "create_collection"} /\ last.req.id = Null) =>
        /\ last.outcome = Success
        /\ db[last.result[1]] = last.result[2]
        /\ last.result[2].rev = 1
        /\ last.result[2].owner = last.req.user

(***************************************************************************)
(* FastapiArticleSearchQuery: the wrapper hands its eleven parameters to   *)
(* ArticleSearchQuery, whose compiled query is the one of section 4.5.     *)
(* An optional value is <<>> when None and <<v>> when v is supplied.       *)
(***************************************************************************)
None == <<>>
Some(v) == <<v>>

SearchQuery(li, sb, so, st, fd, ld, sr, is, hl, hs, ci) ==
    [limit |-> li, sort_by |-> sb, sort_order |-> so, search_term |-> st,
     first_date |-> fd, last_date |-> ld, sources |-> sr, ids |-> is,
     highlight |-> hl, highlight_symbol |-> hs, cluster_id |-> ci]

\* The parameters a request can carry.
SearchQueries ==
    {SearchQuery(li, sb, so, st, fd, ld, sr, is, hl, hs, ci) :
       li \in {0, 10}, sb \in {"", "publish_date"}, so \in {"desc", "asc"},
       st \in {None, Some(""), Some("malware")},
       fd \in {None, Some("t1")}, ld \in {None, Some("t2")},
       sr \in {None, Some({"reuters"})}, is \in {None, Some(<<"a1">>)},
       hl \in BOOLEAN, hs \in {"**", "__"}, ci \in {None, Some(1)}}

\* A wrapper that gives the id list up when a search term is supplied.
ForwardTermOrIds(q) ==
    SearchQuery(q.limit, q.sort_by, q.sort_order, q.search_term, q.first_date,
                q.last_date, q.sources,
                IF q.search_term # None THEN None ELSE q.ids,
                q.highlight, q.highlight_symbol, q.cluster_id)

\* FastapiArticleSearchQuery.__init__: super().__init__(limit=limit, ...).
Forward(q) ==
    SearchQuery(q.limit, q.sort_by, q.sort_order, q.search_term, q.first_date,
                q.last_date, q.sources, q.ids, q.highlight, q.highlight_symbol,
                q.cluster_id)

\* The search term is present: supplied and not empty.
TermPresent(q) == q.search_term \notin {None, Some("")}

\* The compiled query: a match clause only if the term is present, each
\* filter only if its input was supplied, sort, size, highlight.
Compile(q) ==
    [match |-> IF TermPresent(q) THEN q.search_term ELSE None,
     ids |-> q.ids,
     range |-> <<q.first_date, q.last_date>>,
     sources |-> q.sources,
     cluster |-> q.cluster_id,
     sort |-> IF q.sort_by = "" THEN None ELSE Some(<<q.sort_by, q.sort_order>>),
     size |-> q.limit,
     highlight |-> IF q.highlight THEN Some(q.highlight_symbol) ELSE None]

InitQuery ==
    /\ db = [i \in DocIds |-> AbsentDoc]
    /\ pc = [p \in Procs |-> IF p = "p1" THEN "query" ELSE "idle"]
    /\ \E q \in SearchQueries :
          req = [p \in Procs |-> IF p = "p1" THEN [op |-> "search_query", query |-> q]
                                 ELSE NoReq]
    /\ loc = [p \in Procs |-> AbsentDoc]
    /\ loaded = [p \in Procs |-> 0]
    /\ calls = 0
    /\ prev = NoEvent
    /\ last = NoEvent

\* The request is built into a query object and compiled.
BuildQuery(p) ==
    /\ pc[p] = "query"
    /\ pc' = [pc EXCEPT ![p] = "idle"]
    /\ req' = [req EXCEPT ![p] = NoReq]
    /\ prev' = last
    /\ last' = Done(req[p], Success,
                    [args |-> Forward(req[p].query),
                     compiled |-> Compile(Forward(req[p].query))], 0)
    /\ UNCHANGED <<db, loc, loaded, calls>>

NextQuery == \E p \in Procs : BuildQuery(p)

SpecQuery == InitQuery /\ [][NextQuery]_vars

\* C18: with an id list and a non-empty search term both supplied, the
\* wrapper hands every parameter on unchanged and the compiled query has both
\* the id filter and the match clause.
C18_IdsAndTermBothCompiled ==
    (/\ last.req.op = "search_query"
     /\ last.req.query.ids # None
     /\ TermPresent(last.req.query)) =>
        /\ last.result.args = last.req.query
        /\ last.result.compiled.ids = last.req.query.ids
        /\ last.result.compiled.match = last.req.query.search_term

C18_Witness ==
    /\ last.req.op = "search_query"
    /\ last.req.query.ids = Some(<<"a1">>)
    /\ last.req.query.search_term = Some("malware")
    /\ last.req.query.sources # None
    /\ last.result.compiled.match = Some("malware")
    /\ last.result.compiled.ids = Some(<<"a1">>)

(***************************************************************************)
(* The legacy User of app/users.py over the search index: the user's       *)
(* collections are a dict from name to id list inside the user's indexed   *)
(* document, the user's feeds a second field of it.  modify_collections    *)
(* and update_feed_list read the document with a search and write the      *)
(* whole field back with an update.                                        *)
(***************************************************************************)
\* User.collections: the collections every user starts with.
DefaultCollections == [n \in {"Read Later", "Already Read"} |-> <<>>]

CollectionNames == {"Read Later", "Already Read", "c1"}
LegacyActions == {"add", "remove", "extend", "subtract", "clear"}

\* The indexed user document as create_user indexes it (feeds: {}), and the
\* index without it.
LegacyUser(c) == [type |-> "user", collections |-> c, feeds |-> <<>>]
NoLegacyUser == [type |-> "absent", collections |-> DefaultCollections, feeds |-> <<>>]

LegacyReq(a, n, i) ==
    [op |-> "modify_collections", action |-> a, name |-> n, ids |-> i]

\* self.collections[name] = value, and self.collections.pop(name).
DictPut(c, n, v) == [k \in DOMAIN c \cup {n} |-> IF k = n THEN v ELSE c[k]]
DictPop(c, n) == [k \in DOMAIN c \ {n} |-> c[k]]

\* extend: each id not yet in the list is appended.
RECURSIVE ExtendList(_, _)
ExtendList(list, ids) ==
    IF ids = <<>> THEN list
    ELSE ExtendList(IF Head(ids) \in Range(list) THEN list ELSE Append(list, Head(ids)),
                    Tail(ids))

\* list.remove(id): the first occurrence goes, a missing id is passed over.
RemoveFirst(list, id) ==
    IF id \notin Range(list) THEN list
    ELSE LET i == CHOOSE i \in DOMAIN list :
                     list[i] = id /\ \A j \in 1..(i - 1) : list[j] # id
         IN SubSeq(list, 1, i - 1) \o SubSeq(list, i + 1, Len(list))

RECURSIVE SubtractList(_, _)
SubtractList(list, ids) ==
    IF ids = <<>> THEN list
    ELSE SubtractList(RemoveFirst(list, Head(ids)), Tail(ids))

\* modify_collections, lines 141-167, once the name has passed its test.
Modified(c, action, name, ids) ==
    IF action = "add" THEN DictPut(c, name, ids)
    ELSE IF action = "remove" THEN DictPop(c, name)
    ELSE IF action = "extend" THEN DictPut(c, name, ExtendList(c[name], ids))
    ELSE IF action = "subtract" THEN DictPut(c, name, SubtractList(c[name], ids))
    ELSE DictPut(c, name, <<>>)

InitLegacy ==
    /\ db \in {[u \in {"alice"} |-> d] : d \in {NoLegacyUser, LegacyUser(DefaultCollections)}}
    /\ pc = [p \in Procs |-> "idle"]
    /\ req = [p \in Procs |-> NoReq]
    /\ loc = [p \in Procs |-> NoLegacyUser]
    /\ loaded = [p \in Procs |-> 0]
    /\ calls = 0
    /\ prev = NoEvent
    /\ last = NoEvent

\* The call of process p returns or raises.
LegacyReturn(p, r, outcome) ==
    /\ pc' = [pc EXCEPT ![p] = "idle"]
    /\ req' = [req EXCEPT ![p] = NoReq]
    /\ loc' = [loc EXCEPT ![p] = NoLegacyUser]
    /\ loaded' = [loaded EXCEPT ![p] = 0]
    /\ prev' = last
    /\ last' = Done(r, outcome, db'["alice"], 0)

\* modify_collections up to its update: get_collections (a search that
\* caches the user if there is one), the tests and the change of the dict.
ModifyCollectionsRead(p) ==
    /\ Begin(p)
    /\ db' = db
    /\ \E action \in LegacyActions, name \in CollectionNames,
          ids \in {<<"a1">>, <<"a2">>} :
          LET r == LegacyReq(action, name, ids)
              user == db["alice"]
              c == user.collections
              found == IF user.type = "user" THEN 1 ELSE 0
          IN IF DOMAIN c = {} THEN LegacyReturn(p, r, ReturnedFalse)
             ELSE IF action = "add" /\ name \in DOMAIN c THEN LegacyReturn(p, r, ReturnedFalse)
             ELSE IF action # "add" /\ name \notin DOMAIN c THEN LegacyReturn(p, r, ReturnedFalse)
             ELSE /\ pc' = [pc EXCEPT ![p] = "legacy_update"]
                  /\ req' = [req EXCEPT ![p] = r]
                  /\ loc' = [loc EXCEPT ![p] = LegacyUser(Modified(c, action, name, ids))]
                  /\ loaded' = [loaded EXCEPT ![p] = found]
                  /\ UNCHANGED <<prev, last>>

\* _update_current_user("collections", self.collections, overwrite=True):
\* the update by the cached _id, which a user never found does not have.
ModifyCollectionsUpdate(p) ==
    /\ pc[p] = "legacy_update"
    /\ calls' = calls
    /\ IF loaded[p] = 0
       THEN /\ db' = db
            /\ LegacyReturn(p, req[p], KeyError)
       ELSE /\ db' = [db EXCEPT !["alice"].collections = loc[p].collections]
            /\ LegacyReturn(p, req[p], ReturnedTrue)

FeedNames == {"f1", "f2"}

\* A legacy Feed: its name and its query, here the limit.
LegacyFeed(n, l) == [feed_name |-> n, limit |-> l]

LegacyFeedReq(f, n) == [op |-> "update_feed_list", feed |-> f, feed_name |-> n]

\* update_feed_list returning the serialised feeds.
ReturnedFeeds == "current_feeds"

\* update_feed_list, self.get_feeds(): a search; the feeds of the user found
\* are read into self.feeds, which stays empty if there is no user.
UpdateFeedListRead(p) ==
    /\ Begin(p)
    /\ db' = db
    /\ \E f \in {None} \cup {Some(LegacyFeed(n, l)) : n \in FeedNames, l \in {"v1", "v2"}},
          n \in FeedNames \cup {Null} :
          /\ f # None => n = Null
          /\ pc' = [pc EXCEPT ![p] = "feeds_exist"]
          /\ req' = [req EXCEPT ![p] = LegacyFeedReq(f, n)]
          /\ loc' = [loc EXCEPT ![p] = [NoLegacyUser EXCEPT
                         !.feeds = IF db["alice"].type = "user"
                                   THEN db["alice"].feeds ELSE <<>>]]
          /\ loaded' = [loaded EXCEPT ![p] = 0]
          /\ UNCHANGED <<prev, last>>

\* update_feed_list, lines 192-207: the second search, then the feed put
\* into self.feeds or the named feed popped from it.
UpdateFeedListExist(p) ==
    /\ pc[p] = "feeds_exist"
    /\ calls' = calls
    /\ db' = db
    /\ LET r == req[p]
           feeds == loc[p].feeds
       IN IF db["alice"].type # "user" THEN LegacyReturn(p, r, ReturnedFalse)
          ELSE IF r.feed = None /\ r.feed_name \notin DOMAIN feeds
          THEN LegacyReturn(p, r, ReturnedFalse)
          ELSE /\ pc' = [pc EXCEPT ![p] = "feeds_update"]
               /\ loc' = [loc EXCEPT ![p].feeds =
                              IF r.feed # None
                              THEN DictPut(feeds, r.feed[1].feed_name, r.feed[1])
                              ELSE DictPop(feeds, r.feed_name)]
               /\ loaded' = [loaded EXCEPT ![p] = 1]
               /\ UNCHANGED <<req, prev, last>>

\* _update_current_user("feeds", current_feeds): the update of the field.
UpdateFeedListUpdate(p) ==
    /\ pc[p] = "feeds_update"
    /\ calls' = calls
    /\ db' = [db EXCEPT !["alice"].feeds = loc[p].feeds]
    /\ LegacyReturn(p, req[p], ReturnedFeeds)

NextLegacy ==
    \E p \in Procs :
       \/ ModifyCollectionsRead(p)
       \/ ModifyCollectionsUpdate(p)
       \/ UpdateFeedListRead(p)
       \/ UpdateFeedListExist(p)
       \/ UpdateFeedListUpdate(p)

SpecLegacy == InitLegacy /\ [][NextLegacy]_vars

\* C20 (as claimed): the collections every user has, "Read Later" and
\* "Already Read", are never removed: a user that exists has both, whatever
\* modify_collections calls were made.
C20_DefaultsNeverRemoved ==
    db["alice"].type = "user" =>
        DOMAIN DefaultCollections \subseteq DOMAIN db["alice"].collections

\* The last two completed calls are two "extend" calls on the same collection
\* that both returned True.
C21_TwoExtends ==
    /\ prev.req.op = "modify_collections"
    /\ last.req.op = "modify_collections"
    /\ prev.req.action = "extend"
    /\ last.req.action = "extend"
    /\ prev.req.name = last.req.name
    /\ prev.outcome = ReturnedTrue
    /\ last.outcome = ReturnedTrue

\* The last two completed calls are two update_feed_list calls that each put
\* a feed and both returned the feeds.
C21_TwoFeeds ==
    /\ prev.req.op = "update_feed_list"
    /\ last.req.op = "update_feed_list"
    /\ prev.req.feed # None
    /\ last.req.feed # None
    /\ prev.outcome = ReturnedFeeds
    /\ last.outcome = ReturnedFeeds

\* C21 (as claimed): of two modify_collections calls extending the same
\* collection, or two update_feed_list calls putting a feed, that both report
\* success, both changes are in the stored value: no change is lost without
\* its call being reported as failed.
C21_NoLostUpdate ==
    /\ C21_TwoExtends =>
          Range(prev.req.ids) \cup Range(last.req.ids)
             \subseteq Range(db["alice"].collections[last.req.name])
    /\ C21_TwoFeeds =>
          {prev.req.feed[1].feed_name, last.req.feed[1].feed_name}
             \subseteq DOMAIN db["alice"].feeds

\* C22: a successful modify_user_subscription leaves the user's other list,
\* username, active flag and hashes as they were stored; a call for an id
\* under which the view has no user returns None and writes nothing.
C22_SubscriptionFrame ==
    last.req.op = "modify_user_subscription" =>
        /\ last.outcome = Success =>
              /\ OtherList(last.after, last.req.kind) = OtherList(last.cur, last.req.kind)
              /\ last.after.auth = last.cur.auth
              /\ last.after.type = "user"
              /\ db[last.req.id] = last.after
        /\ last.cur.type # "user" =>
              /\ last.outcome = NoUser
              /\ last.after = last.cur
              /\ db[last.req.id] = last.cur

C22_Witness ==
    /\ last.req.op = "modify_user_subscription"
    /\ last.outcome = Success
    /\ last.req.kind = "collection"
    /\ last.req.action = "subscribe"
    /\ last.cur.feed_ids = <<"s1">>
    /\ last.after.feed_ids = <<"s1">>
    /\ Range(last.after.collection_ids) = {"s1", "s2"}
    /\ last.after.auth.username = "alice"
    /\ last.after.auth.hashed_password = Hash("pw1")

====
